---- MODULE Spec2Model ----
(***************************************************************************)
(* HouseOps low-stock alert pipeline.                                      *)
(*                                                                         *)
(* The model covers the Cloud Function notifyLowStock (functions/index.js) *)
(* together with the client handlers that write the items collection.      *)
(* One item document, a small population of device registrations, a        *)
(* discrete clock in minutes.  Every await of the source is a separate     *)
(* step, so writes of different handlers interleave as they can on the     *)
(* document store.                                                         *)
(***************************************************************************)
EXTENDS Integers, Sequences, FiniteSets, TLC

(***************************************************************************)
(* Bounds of the model.                                                    *)
(***************************************************************************)
MaxWrites == 1          \* client updates of the item per behaviour of Spec
MaxColdWrites == 4      \* client writes of the item per behaviour of SpecCold
MaxQty == 5             \* largest stored quantity
MaxTime == 10           \* last minute of the clock
MinArg == 5             \* getState is exercised on qty in -MinArg..MaxArg
MaxArg == 6             \* and on min in 0..MaxArg
MaxRetries == 1         \* redeliveries of an event that has alerted
MaxStaleWrites == 2     \* client updates of the item per behaviour of SpecStale

(***************************************************************************)
(* Program constants and value spaces.                                     *)
(***************************************************************************)
COOLDOWN_MINUTES == 10
Infinity == 1000000     \* minutesSince(null)
Undefined == 0 - 1000   \* a numeric field that the document does not have
NoTime == 0 - 1         \* lastAlertAt missing / null
None == "none"          \* a string field that the document does not have

\* Clock readings, in minutes: the edges of the cooldown window and one
\* reading inside it.
Times == {t \in 0..MaxTime : t % 5 = 0}
Deltas == {0 - 5, 0 - 1, 1, 5}
CreateInputs == {<<3, 2>>, <<5, 10>>}   \* <<currentQuantity, minQuantity>>
DisposalQtys == {1}
SiteIds == {"s1", "s2"}
Tokens == {"t1", "t2", "t3"}
Uids == {"u1", "u2"}
Callers == {"c1", "c2"}                \* concurrent calls of savePushToken
SiteArgs == {" ", "s1", " s2"}         \* siteId arguments, before trim()
Devices == {"d1"}
Readers == {"d1", "d2"}                \* devices with the Alerts tab open
UserSite == [d \in Devices |-> "s1"]   \* siteId of the signed-in user's profile
DeviceToken == [d \in Readers |-> IF d = "d1" THEN "t1" ELSE "t3"]
ProfileSite == [d \in Readers |-> "s1"]
TicketKinds == {"ok", "DeviceNotRegistered", "MessageRateExceeded"}

VARIABLES
  item,           \* the document items/{itemId}
  events,         \* update events the store has fired for the item, in order
  inv,            \* inv[e]: the notifyLowStock invocation for events[e]
  alertsLog,      \* collection alertsLog (audit records)
  alerts,         \* collection alerts (feed records)
  pushes,         \* calls made to the push gateway
  devicePushTokens, \* collection devicePushTokens, keyed by token
  movements,      \* sub-collection items/{itemId}/movements
  disposals,      \* collection disposals
  op,             \* op[d]: the client handler device d is in the middle of
  pendingDelete,  \* pendingDelete[d]: backup kept by the undo bar
  writes,         \* number of client updates so far
  now,            \* the latest clock reading, in minutes
  args,           \* a call of getState: its arguments and what it returned
  session,        \* session[d]: the token and the siteId the hooks of d hold
  unreadCount,    \* unreadCount[d]: the badge of the Alerts tab of d
  marked,         \* marked[d]: the alerts whose markOneAsRead on d has returned
  reg,            \* reg[c]: the savePushToken call of caller c, or its last one
  views           \* views[d]: the item as the item screen of device d holds it

vars == <<item, events, inv, alertsLog, alerts, pushes, devicePushTokens,
          movements, disposals, op, pendingDelete, writes, now, args,
          session, unreadCount, marked, reg, views>>

(***************************************************************************)
(* Helpers of functions/index.js.                                          *)
(***************************************************************************)
\* Number(x ?? 0)
Num(x) == IF x = Undefined THEN 0 ELSE x

\* getState without its first test.
getStateNoOut(qty, min) ==
  LET q == Num(qty)
      m == Num(min)
  IN IF q <= m THEN "LOW" ELSE "OK"

getState(qty, min) ==
  LET q == Num(qty)
      m == Num(min)
  IN IF q <= 0 THEN "OUT"
     ELSE IF q <= m THEN "LOW"
     ELSE "OK"

minutesSince(ts, dateNow) == IF ts = NoTime THEN Infinity ELSE dateNow - ts

NoItem ==
  [exists |-> FALSE, currentQuantity |-> Undefined, minQuantity |-> Undefined,
   siteId |-> None, isLowStock |-> FALSE, alertState |-> None,
   lastAlertAt |-> NoTime, lastAlertState |-> None]

NoRegistration ==
  [exists |-> FALSE, token |-> None, uid |-> None, siteId |-> None,
   enabled |-> FALSE, disableReason |-> None]

\* A registration as the client writes it (token, uid, siteId, enabled);
\* no registration when the site is None.
Registration(t, s, en) ==
  IF s = None THEN NoRegistration
  ELSE [exists |-> TRUE, token |-> t, uid |-> "u1", siteId |-> s,
        enabled |-> en, disableReason |-> None]

IdleInv ==
  [pc |-> "pending", mins |-> 0, tokens |-> <<>>, logRef |-> 0,
   tickets |-> <<>>, i |-> 0]

Idle == [name |-> "idle", delta |-> 0, previousQuantity |-> 0, newQuantity |-> 0]

NoCall == [qty |-> 0, min |-> 0, result |-> None]

\* usePushNotifications and useUserProfile before they have resolved; the
\* Alerts tab opens on the unread view.
NoSession == [token |-> None, siteId |-> None, viewMode |-> "unread"]

\* No call of savePushToken yet.
NoReg ==
  [pc |-> "idle", result |-> None, user |-> None, token |-> None,
   siteId |-> None, existing |-> None]

NoBackup ==
  [set |-> FALSE, currentQuantity |-> 0, minQuantity |-> 0, siteId |-> None]

Max(a, b) == IF a >= b THEN a ELSE b

(***************************************************************************)
(* The document store.  An update of an existing document fires the        *)
(* onDocumentUpdated trigger with the before and after snapshots; a write  *)
(* that changes no field fires nothing, and a write that creates the       *)
(* document is a creation, not an update.  touched says that the write     *)
(* carries a server timestamp (updatedAt), which always changes the        *)
(* document.                                                               *)
(***************************************************************************)
StoreItemAnd(newItem, touched, newInv) ==
  /\ item' = newItem
  /\ IF item.exists /\ (touched \/ newItem # item)
       THEN /\ events' = Append(events, [before |-> item, after |-> newItem])
            /\ inv' = Append(newInv, IdleInv)
       ELSE /\ events' = events
            /\ inv' = newInv

StoreItem(newItem, touched) == StoreItemAnd(newItem, touched, inv)

\* ref.set(fields, {merge: true}) of the alert fields: creates the document
\* when it is gone.
Merged(doc) == [doc EXCEPT !.exists = TRUE]

\* Documents the item can be at when a behaviour of Spec starts:
\*   as add-item.tsx creates it (OK, site of the user);
\*   as item/new.tsx creates it (LOW, no siteId);
\*   after the adjustment 3 -> 2 of the first and the LOW alert for it;
\*   after -1, +1, -1, +1 on the first in quick succession: the trigger alerts
\*   LOW, OK, LOW and suppresses the last OK, whose event still carries the
\*   earlier OK alert.
Created(qty, min, site) ==
  [NoItem EXCEPT !.exists = TRUE, !.currentQuantity = qty, !.minQuantity = min,
                 !.siteId = site]

InitItems ==
  { Created(3, 2, "s1"),
    Created(5, 10, None),
    [Created(2, 2, "s1") EXCEPT !.isLowStock = TRUE, !.alertState = "LOW",
                                !.lastAlertAt = 0, !.lastAlertState = "LOW"],
    [Created(3, 2, "s1") EXCEPT !.alertState = "OK",
                                !.lastAlertAt = 0, !.lastAlertState = "LOW"] }

\* The collections other than items: two registered devices, one per site
\* (the third token is not registered), and nothing else yet.
InitScreens ==
  /\ session = [d \in Readers |-> NoSession]
  /\ unreadCount = [d \in Readers |-> 0]
  /\ marked = [d \in Readers |-> {}]
  /\ reg = [c \in Callers |-> NoReg]
  /\ views = [d \in Readers |-> NoItem]

InitRecords ==
  /\ InitScreens
  /\ alertsLog = {}
  /\ alerts = {}
  /\ pushes = {}
  /\ pendingDelete = [d \in Devices |-> NoBackup]
  /\ now = 0

InitStore ==
  /\ InitRecords
  /\ events = <<>>
  /\ inv = <<>>
  /\ devicePushTokens = [t \in Tokens |->
       IF t = "t1" THEN Registration(t, "s1", TRUE)
       ELSE IF t = "t2" THEN Registration(t, "s2", TRUE)
       ELSE NoRegistration]
  /\ movements = <<>>
  /\ disposals = <<>>
  /\ op = [d \in Devices |-> Idle]
  /\ writes = 0

Init ==
  /\ item \in InitItems
  /\ InitStore
  /\ args = NoCall

(***************************************************************************)
(* Client handlers.                                                        *)
(***************************************************************************)
ClientFrame ==
  UNCHANGED <<alertsLog, alerts, pushes, devicePushTokens, now, args,
              session, unreadCount, marked, reg, views>>

\* app/add-item.tsx handleSave: addDoc with the user's siteId.
AddItem(d, qty, min) ==
  /\ ~item.exists
  /\ op[d] = Idle
  /\ item' = Created(qty, min, UserSite[d])
  /\ writes' = writes + 1
  /\ UNCHANGED <<events, inv, movements, disposals, op, pendingDelete>>
  /\ ClientFrame

\* app/item/new.tsx handleSave: addDoc without a siteId.
NewItem(d, qty, min) ==
  /\ ~item.exists
  /\ op[d] = Idle
  /\ item' = Created(qty, min, None)
  /\ writes' = writes + 1
  /\ UNCHANGED <<events, inv, movements, disposals, op, pendingDelete>>
  /\ ClientFrame

\* updateDoc rejects when the document is gone; the handlers catch it.
CanUpdate(d, view) == op[d] = Idle /\ view.exists

\* app/item/[id].tsx applyQuantityChange, up to and including updateDoc.
applyQuantityChange(d, view, delta) ==
  /\ CanUpdate(d, view)
  /\ LET previousQuantity == Num(view.currentQuantity)
         newQuantity == Max(0, previousQuantity + delta)
         isLowStock == newQuantity <= Num(view.minQuantity)
     IN /\ newQuantity <= MaxQty
        /\ IF item.exists
             THEN /\ StoreItem([item EXCEPT !.currentQuantity = newQuantity,
                                            !.isLowStock = isLowStock], TRUE)
                  /\ op' = [op EXCEPT ![d] =
                             [name |-> "movement", delta |-> delta,
                              previousQuantity |-> previousQuantity,
                              newQuantity |-> newQuantity]]
             ELSE UNCHANGED <<item, events, inv, op>>
  /\ writes' = writes + 1
  /\ UNCHANGED <<movements, disposals, pendingDelete>>
  /\ ClientFrame

\* applyQuantityChange and confirmDisposal, the closing addDoc to movements.
addMovement(d) ==
  /\ op[d].name = "movement"
  /\ movements' = Append(movements,
        [delta |-> op[d].delta, previousQuantity |-> op[d].previousQuantity,
         newQuantity |-> op[d].newQuantity])
  /\ op' = [op EXCEPT ![d] = Idle]
  /\ UNCHANGED <<item, events, inv, disposals, pendingDelete, writes>>
  /\ ClientFrame

\* confirmDisposal, up to and including the addDoc to disposals.
confirmDisposal(d, view, qty) ==
  /\ CanUpdate(d, view)
  /\ qty > 0 /\ qty <= Num(view.currentQuantity)
  /\ disposals' = Append(disposals, qty)
  /\ op' = [op EXCEPT ![d] =
            [name |-> "disposal", delta |-> 0 - qty,
             previousQuantity |-> Num(view.currentQuantity),
             newQuantity |-> Num(view.currentQuantity) - qty]]
  /\ writes' = writes + 1
  /\ UNCHANGED <<item, events, inv, movements, pendingDelete>>
  /\ ClientFrame

\* confirmDisposal, the updateDoc of the item.
disposalUpdate(d) ==
  /\ op[d].name = "disposal"
  /\ IF item.exists
       THEN /\ StoreItem([item EXCEPT !.currentQuantity = op[d].newQuantity], TRUE)
            /\ op' = [op EXCEPT ![d].name = "movement"]
       ELSE /\ op' = [op EXCEPT ![d] = Idle]
            /\ UNCHANGED <<item, events, inv>>
  /\ UNCHANGED <<movements, disposals, pendingDelete, writes>>
  /\ ClientFrame

\* handleSaveMeta: location, barcode and updatedAt only.
handleSaveMeta(d, view) ==
  /\ CanUpdate(d, view)
  /\ IF item.exists THEN StoreItem(item, TRUE) ELSE UNCHANGED <<item, events, inv>>
  /\ writes' = writes + 1
  /\ UNCHANGED <<movements, disposals, op, pendingDelete>>
  /\ ClientFrame

\* handleMoveSite: siteId and updatedAt.
handleMoveSite(d, view, s) ==
  /\ CanUpdate(d, view)
  /\ IF item.exists
       THEN StoreItem([item EXCEPT !.siteId = s], TRUE)
       ELSE UNCHANGED <<item, events, inv>>
  /\ writes' = writes + 1
  /\ UNCHANGED <<movements, disposals, op, pendingDelete>>
  /\ ClientFrame

\* handleDeleteItem: deleteDoc at once.
handleDeleteItem(d, view) ==
  /\ op[d] = Idle /\ view.exists
  /\ item.exists
  /\ item' = NoItem
  /\ UNCHANGED <<events, inv, movements, disposals, op, pendingDelete, writes>>
  /\ ClientFrame

\* scheduleDelete of the inventory list: keeps a backup and starts the timer.
\* The list shows the items of the user's site, so the backup's siteId is the
\* one the listed item has.
scheduleDelete(d, view) ==
  /\ op[d] = Idle /\ view.exists /\ view.siteId # None
  /\ ~pendingDelete[d].set
  /\ pendingDelete' = [pendingDelete EXCEPT ![d] =
        [set |-> TRUE, currentQuantity |-> Num(view.currentQuantity),
         minQuantity |-> Num(view.minQuantity), siteId |-> view.siteId]]
  /\ UNCHANGED <<item, events, inv, movements, disposals, op, writes>>
  /\ ClientFrame

\* The timer of scheduleDelete fires: deleteDoc.
deleteTimeout(d) ==
  /\ pendingDelete[d].set
  /\ item' = NoItem
  /\ pendingDelete' = [pendingDelete EXCEPT ![d] = NoBackup]
  /\ UNCHANGED <<events, inv, movements, disposals, op, writes>>
  /\ ClientFrame

\* undoDelete: setDoc(backup, {merge: true}); the backup has no timestamp.
undoDelete(d) ==
  /\ pendingDelete[d].set
  /\ StoreItem([item EXCEPT !.exists = TRUE,
                            !.currentQuantity = pendingDelete[d].currentQuantity,
                            !.minQuantity = pendingDelete[d].minQuantity,
                            !.siteId = pendingDelete[d].siteId], FALSE)
  /\ pendingDelete' = [pendingDelete EXCEPT ![d] = NoBackup]
  /\ writes' = writes + 1
  /\ UNCHANGED <<movements, disposals, op>>
  /\ ClientFrame

(***************************************************************************)
(* notifyLowStock, the onDocumentUpdated trigger of items/{itemId}.        *)
(***************************************************************************)
beforeQty(e) == Num(events[e].before.currentQuantity)
afterQty(e) == Num(events[e].after.currentQuantity)
minQty(e) == Num(events[e].after.minQuantity)
prevState(e) == getState(beforeQty(e), minQty(e))
nextState(e) == getState(afterQty(e), minQty(e))

\* Line 84 left out.
AlertWorthyQtyOnly(e) == beforeQty(e) # afterQty(e)

\* Lines 78 and 84: the invocation goes on only past both early returns.
AlertWorthy(e) == beforeQty(e) # afterQty(e) /\ prevState(e) # nextState(e)

\* Line 92 with <= for <.
SuppressesInclusive(e, mins) ==
  events[e].after.lastAlertState = nextState(e) /\ mins <= COOLDOWN_MINUTES

\* Line 92 without the comparison of the states.
SuppressesAnyState(e, mins) == mins < COOLDOWN_MINUTES

\* Line 92, with mins = minutesSince(after.lastAlertAt) taken at line 90.
Suppresses(e, mins) ==
  events[e].after.lastAlertState = nextState(e) /\ mins < COOLDOWN_MINUTES

\* The handler has returned (or thrown): its locals are gone.
EndedAs(e, how) == [inv EXCEPT ![e] = [IdleInv EXCEPT !.pc = how]]

Running(e) == inv[e].pc \notin {"pending", "done", "suppressed", "raised"}

TriggerFrame ==
  UNCHANGED <<movements, disposals, op, pendingDelete, writes, args,
              session, unreadCount, marked, reg, views>>

\* The documents of a collection (the calls of the gateway) that the
\* invocation for event e has created.  A document is identified by the
\* event and by n, its rank among the documents of that invocation: the
\* store generates the ids, and the collections have no order of their own.
AuditIn(log, e) == {r \in log : r.ev = e}
FeedIn(feed, e) == {r \in feed : r.ev = e}
PushIn(calls, e) == {r \in calls : r.ev = e}
AuditOf(e) == AuditIn(alertsLog, e)
FeedOf(e) == FeedIn(alerts, e)
PushOf(e) == PushIn(pushes, e)

\* Lines 67-92: the synchronous head of the handler.
\* Lines 87-95 with the markers read from the stored document at the time
\* of the check, not from the event's after snapshot.
detectStored(e, dateNow) ==
  /\ inv[e].pc = "pending"
  /\ dateNow >= now
  /\ now' = dateNow
  /\ LET mins == minutesSince(item.lastAlertAt, dateNow)
     IN inv' = IF ~AlertWorthy(e) THEN EndedAs(e, "done")
               ELSE [inv EXCEPT ![e].pc =
                       IF item.lastAlertState = nextState(e)
                          /\ mins < COOLDOWN_MINUTES
                         THEN "suppress" ELSE "markers",
                                ![e].mins = mins]
  /\ UNCHANGED <<item, events, alertsLog, alerts, pushes, devicePushTokens>>
  /\ TriggerFrame

detect(e, dateNow) ==
  /\ inv[e].pc = "pending"
  /\ dateNow >= now
  /\ now' = dateNow
  /\ LET mins == minutesSince(events[e].after.lastAlertAt, dateNow)
     IN inv' = IF ~AlertWorthy(e) THEN EndedAs(e, "done")
               ELSE [inv EXCEPT ![e].pc = IF Suppresses(e, mins) THEN "suppress"
                                          ELSE "markers",
                                ![e].mins = mins]
  /\ UNCHANGED <<item, events, alertsLog, alerts, pushes, devicePushTokens>>
  /\ TriggerFrame

\* Line 93: the suppressed branch still caches alertState.
setAlertState(e) ==
  /\ inv[e].pc = "suppress"
  /\ StoreItemAnd(Merged([item EXCEPT !.alertState = nextState(e)]), FALSE,
                  EndedAs(e, "suppressed"))
  /\ UNCHANGED <<alertsLog, alerts, pushes, devicePushTokens>>
  /\ now' = now
  /\ TriggerFrame

\* Lines 98-105 without lastAlertAt.
setAlertMarkersNoTime(e, serverTimestamp) ==
  /\ inv[e].pc = "markers"
  /\ serverTimestamp >= now
  /\ now' = serverTimestamp
  /\ StoreItemAnd(Merged([item EXCEPT !.alertState = nextState(e),
                                      !.lastAlertState = nextState(e)]), FALSE,
                  [inv EXCEPT ![e].pc = "tokens"])
  /\ UNCHANGED <<alertsLog, alerts, pushes, devicePushTokens>>
  /\ TriggerFrame

\* Lines 98-105 with the quantity of the before snapshot written back.
setAlertMarkersRollback(e, serverTimestamp) ==
  /\ inv[e].pc = "markers"
  /\ serverTimestamp >= now
  /\ now' = serverTimestamp
  /\ StoreItemAnd(Merged([item EXCEPT !.alertState = nextState(e),
                                      !.lastAlertAt = serverTimestamp,
                                      !.lastAlertState = nextState(e),
                                      !.currentQuantity = beforeQty(e)]), FALSE,
                  [inv EXCEPT ![e].pc = "tokens"])
  /\ UNCHANGED <<alertsLog, alerts, pushes, devicePushTokens>>
  /\ TriggerFrame

\* Lines 98-105: one set() of the three alert markers.
setAlertMarkers(e, serverTimestamp) ==
  /\ inv[e].pc = "markers"
  /\ serverTimestamp >= now
  /\ now' = serverTimestamp
  /\ StoreItemAnd(Merged([item EXCEPT !.alertState = nextState(e),
                                      !.lastAlertAt = serverTimestamp,
                                      !.lastAlertState = nextState(e)]), FALSE,
                  [inv EXCEPT ![e].pc = "tokens"])
  /\ UNCHANGED <<alertsLog, alerts, pushes, devicePushTokens>>
  /\ TriggerFrame

\* The query returns the documents in key order.
TokenOrder == <<"t1", "t2", "t3">>

\* Lines 25-33 without the where on siteId.
getEnabledTokensAnySite(siteId) ==
  LET Match(t) == /\ devicePushTokens[t].exists
                  /\ devicePushTokens[t].enabled
                  /\ devicePushTokens[t].token # None
      docs == SelectSeq(TokenOrder, Match)
  IN [k \in 1..Len(docs) |-> devicePushTokens[docs[k]].token]

getEnabledTokens(siteId) ==
  LET Match(t) == /\ devicePushTokens[t].exists
                  /\ devicePushTokens[t].enabled
                  /\ devicePushTokens[t].siteId = siteId
                  /\ devicePushTokens[t].token # None
      docs == SelectSeq(TokenOrder, Match)
  IN [k \in 1..Len(docs) |-> devicePushTokens[docs[k]].token]

\* Line 112.
resolveTokens(e) ==
  /\ inv[e].pc = "tokens"
  /\ inv' = [inv EXCEPT ![e].pc = "audit",
                        ![e].tokens = getEnabledTokens(events[e].after.siteId)]
  /\ UNCHANGED <<item, events, alertsLog, alerts, pushes, devicePushTokens>>
  /\ now' = now
  /\ TriggerFrame

\* Lines 118-130.
Title(state) ==
  IF state = "OUT" THEN "Out of stock"
  ELSE IF state = "LOW" THEN "Low stock"
  ELSE IF state = "OK" THEN "Restocked"
  ELSE "Stock update"

Body(state, qty, min) ==
  IF state = "OUT" THEN <<"is OUT", 0, "left">>
  ELSE IF state = "LOW" THEN <<"is LOW", qty, "left, min", min>>
  ELSE IF state = "OK" THEN <<"was restocked", qty, "now in stock">>
  ELSE <<"changed">>

\* Lines 149-150 with low and restock swapped.
TypeSwapped(state) ==
  IF state = "OUT" THEN "out" ELSE IF state = "LOW" THEN "restock" ELSE "low"

\* Lines 149-150.
Type(state) ==
  IF state = "OUT" THEN "out" ELSE IF state = "LOW" THEN "low" ELSE "restock"

\* Line 145 with the status fixed to "sending".
writeAuditSending(e) ==
  /\ inv[e].pc = "audit"
  /\ alertsLog' = alertsLog \cup
       {[ev |-> e, n |-> Cardinality(AuditOf(e)) + 1, prevState |-> prevState(e),
         nextState |-> nextState(e), qty |-> afterQty(e), min |-> minQty(e),
         tokenCount |-> Len(inv[e].tokens),
         status |-> "sending",
         error |-> None]}
  /\ inv' = [inv EXCEPT ![e].pc = "feed",
                        ![e].logRef = Cardinality(AuditOf(e)) + 1]
  /\ UNCHANGED <<item, events, alerts, pushes, devicePushTokens>>
  /\ now' = now
  /\ TriggerFrame

\* Lines 135-146.
writeAudit(e) ==
  /\ inv[e].pc = "audit"
  /\ alertsLog' = alertsLog \cup
       {[ev |-> e, n |-> Cardinality(AuditOf(e)) + 1, prevState |-> prevState(e),
         nextState |-> nextState(e), qty |-> afterQty(e), min |-> minQty(e),
         tokenCount |-> Len(inv[e].tokens),
         status |-> IF Len(inv[e].tokens) # 0 THEN "sending" ELSE "no_tokens",
         error |-> None]}
  /\ inv' = [inv EXCEPT ![e].pc = "feed",
                        ![e].logRef = Cardinality(AuditOf(e)) + 1]
  /\ UNCHANGED <<item, events, alerts, pushes, devicePushTokens>>
  /\ now' = now
  /\ TriggerFrame

\* Lines 152-168 without the return of line 167.
writeFeedThenSend(e) ==
  /\ inv[e].pc = "feed"
  /\ alerts' = alerts \cup
       {[ev |-> e, n |-> Cardinality(FeedOf(e)) + 1, type |-> Type(nextState(e)),
         title |-> Title(nextState(e)),
         body |-> Body(nextState(e), afterQty(e), minQty(e)),
         qty |-> afterQty(e), min |-> minQty(e),
         siteId |-> events[e].after.siteId, readBy |-> {}]}
  /\ inv' = [inv EXCEPT ![e].pc = "send"]
  /\ UNCHANGED <<item, events, alertsLog, pushes, devicePushTokens>>
  /\ now' = now
  /\ TriggerFrame

\* Lines 152-168.
writeFeed(e) ==
  /\ inv[e].pc = "feed"
  /\ alerts' = alerts \cup
       {[ev |-> e, n |-> Cardinality(FeedOf(e)) + 1, type |-> Type(nextState(e)),
         title |-> Title(nextState(e)),
         body |-> Body(nextState(e), afterQty(e), minQty(e)),
         qty |-> afterQty(e), min |-> minQty(e),
         siteId |-> events[e].after.siteId, readBy |-> {}]}
  /\ inv' = IF Len(inv[e].tokens) = 0 THEN EndedAs(e, "done")
             ELSE [inv EXCEPT ![e].pc = "send"]
  /\ UNCHANGED <<item, events, alertsLog, pushes, devicePushTokens>>
  /\ now' = now
  /\ TriggerFrame

\* Lines 170-183 with sendExpoPush: one POST of all messages; the gateway
\* answers with one ticket per message.
sendExpoPush(e, tickets) ==
  /\ inv[e].pc = "send"
  /\ pushes' = pushes \cup
       {[ev |-> e, n |-> Cardinality(PushOf(e)) + 1, to |-> inv[e].tokens,
         ok |-> TRUE]}
  /\ inv' = [inv EXCEPT ![e].pc = "sent", ![e].tickets = tickets]
  /\ UNCHANGED <<item, events, alertsLog, alerts, devicePushTokens>>
  /\ now' = now
  /\ TriggerFrame

\* sendExpoPush throws: the fetch fails or the response is not ok.
sendExpoPushFails(e) ==
  /\ inv[e].pc = "send"
  /\ pushes' = pushes \cup
       {[ev |-> e, n |-> Cardinality(PushOf(e)) + 1, to |-> inv[e].tokens,
         ok |-> FALSE]}
  /\ inv' = [inv EXCEPT ![e].pc = "error"]
  /\ UNCHANGED <<item, events, alertsLog, alerts, devicePushTokens>>
  /\ now' = now
  /\ TriggerFrame

\* Lines 188-195 without the test of the reason at line 194.
NextDisableAnyError(tickets, i) ==
  LET hits == {k \in i..Len(tickets) : tickets[k] # "ok"}
  IN IF hits = {} THEN 0 ELSE CHOOSE k \in hits : \A j \in hits : k <= j

\* Lines 188-195: the index of the next ticket from i on that disables its
\* token, or 0.
NextDisable(tickets, i) ==
  LET hits == {k \in i..Len(tickets) : tickets[k] = "DeviceNotRegistered"}
  IN IF hits = {} THEN 0 ELSE CHOOSE k \in hits : \A j \in hits : k <= j

\* logRef.set(fields, {merge: true}) of the invocation's audit record.
SetLog(e, status, error) ==
  {IF r.ev = e /\ r.n = inv[e].logRef
     THEN [r EXCEPT !.status = status, !.error = error] ELSE r : r \in alertsLog}

\* Line 185 left out.
markSentNoStatus(e) ==
  /\ inv[e].pc = "sent"
  /\ alertsLog' = alertsLog
  /\ LET k == NextDisable(inv[e].tickets, 1)
     IN inv' = IF k = 0 THEN EndedAs(e, "done")
               ELSE [inv EXCEPT ![e].pc = "disable", ![e].i = k]
  /\ UNCHANGED <<item, events, alerts, pushes, devicePushTokens>>
  /\ now' = now
  /\ TriggerFrame

\* Line 185 with "error" for a response that holds a ticket in error.
markSentStrict(e) ==
  /\ inv[e].pc = "sent"
  /\ alertsLog' =
       SetLog(e, IF \E k \in DOMAIN inv[e].tickets : inv[e].tickets[k] # "ok"
                   THEN "error" ELSE "sent", None)
  /\ LET k == NextDisable(inv[e].tickets, 1)
     IN inv' = IF k = 0 THEN EndedAs(e, "done")
               ELSE [inv EXCEPT ![e].pc = "disable", ![e].i = k]
  /\ UNCHANGED <<item, events, alerts, pushes, devicePushTokens>>
  /\ now' = now
  /\ TriggerFrame

\* Line 185, then the loop up to its first await.
markSent(e) ==
  /\ inv[e].pc = "sent"
  /\ alertsLog' = SetLog(e, "sent", None)
  /\ LET k == NextDisable(inv[e].tickets, 1)
     IN inv' = IF k = 0 THEN EndedAs(e, "done")
               ELSE [inv EXCEPT ![e].pc = "disable", ![e].i = k]
  /\ UNCHANGED <<item, events, alerts, pushes, devicePushTokens>>
  /\ now' = now
  /\ TriggerFrame

\* disableToken(messages[i].to, reason), then the loop up to its next await.
disableToken(e) ==
  /\ inv[e].pc = "disable"
  /\ LET token == inv[e].tokens[inv[e].i]
         k == NextDisable(inv[e].tickets, inv[e].i + 1)
     IN /\ devicePushTokens' =
             [devicePushTokens EXCEPT ![token].exists = TRUE,
                                      ![token].enabled = FALSE,
                                      ![token].disableReason = "DeviceNotRegistered"]
        /\ inv' = IF k = 0 THEN EndedAs(e, "done")
                   ELSE [inv EXCEPT ![e].pc = "disable", ![e].i = k]
  /\ UNCHANGED <<item, events, alertsLog, alerts, pushes>>
  /\ now' = now
  /\ TriggerFrame

\* Lines 197-199 without the throw of line 200.
markErrorSwallowed(e) ==
  /\ inv[e].pc = "error"
  /\ alertsLog' = SetLog(e, "error", "Expo push failed")
  /\ inv' = EndedAs(e, "done")
  /\ UNCHANGED <<item, events, alerts, pushes, devicePushTokens>>
  /\ now' = now
  /\ TriggerFrame

\* Lines 197-200: the catch records the error and rethrows.
markError(e) ==
  /\ inv[e].pc = "error"
  /\ alertsLog' = SetLog(e, "error", "Expo push failed")
  /\ inv' = EndedAs(e, "raised")
  /\ UNCHANGED <<item, events, alerts, pushes, devicePushTokens>>
  /\ now' = now
  /\ TriggerFrame

(***************************************************************************)
(* Specification: the client handlers of one device and the trigger, all   *)
(* interleaved.                                                            *)
(***************************************************************************)
Update(d) ==
  \/ \E delta \in Deltas : applyQuantityChange(d, item, delta)
  \/ \E qty \in DisposalQtys : confirmDisposal(d, item, qty)
  \/ handleSaveMeta(d, item)
  \/ \E s \in SiteIds : handleMoveSite(d, item, s)

Finish(d) ==
  \/ addMovement(d)
  \/ disposalUpdate(d)

Trigger(e) ==
  \/ \E dateNow \in Times : detect(e, dateNow)
  \/ setAlertState(e)
  \/ \E serverTimestamp \in Times : setAlertMarkers(e, serverTimestamp)
  \/ resolveTokens(e)
  \/ writeAudit(e)
  \/ writeFeed(e)
  \/ \E tickets \in [1..Len(inv[e].tokens) -> TicketKinds] : sendExpoPush(e, tickets)
  \/ sendExpoPushFails(e)
  \/ markSent(e)
  \/ disableToken(e)
  \/ markError(e)

Next ==
  \/ \E d \in Devices : writes < MaxWrites /\ Update(d)
  \/ \E d \in Devices : Finish(d)
  \/ \E e \in DOMAIN inv : Trigger(e)

Spec == Init /\ [][Next]_vars

(***************************************************************************)
(* SpecCold: from an empty items collection; the devices write only when   *)
(* every earlier write and every invocation it caused has completed, and   *)
(* the events are handled one after another in the order they were fired.  *)
(***************************************************************************)
InitCold ==
  /\ item = NoItem
  /\ InitStore
  /\ args = NoCall

Ended(e) == inv[e].pc \in {"done", "suppressed", "raised"}
Quiescent ==
  /\ \A e \in DOMAIN inv : Ended(e)
  /\ \A d \in Devices : op[d] = Idle

Create(d) ==
  \/ \E c \in CreateInputs : AddItem(d, c[1], c[2])
  \/ \E c \in CreateInputs : NewItem(d, c[1], c[2])

Delete(d) ==
  \/ handleDeleteItem(d, item)
  \/ scheduleDelete(d, item)
  \/ deleteTimeout(d)
  \/ undoDelete(d)

InOrder(e) ==
  /\ \A f \in DOMAIN inv : f < e => Ended(f)
  /\ inv[e].pc = "pending" => \A f \in DOMAIN inv : ~Running(f)

NextCold ==
  \/ \E d \in Devices : Quiescent /\ writes < MaxColdWrites /\ Create(d)
  \/ \E d \in Devices : Quiescent /\ writes < MaxColdWrites /\ Update(d)
  \/ \E d \in Devices : Quiescent /\ writes < MaxColdWrites /\ Delete(d)
  \/ \E d \in Devices : Finish(d)
  \/ \E e \in DOMAIN inv : InOrder(e) /\ Trigger(e)

SpecCold == InitCold /\ [][NextCold]_vars

(***************************************************************************)
(* SpecGetState: getState on its own, over a range of arguments (a missing *)
(* quantity included).                                                     *)
(***************************************************************************)
InitGetState ==
  /\ item = NoItem
  /\ InitStore
  /\ args \in [qty : (0 - MinArg)..MaxArg \cup {Undefined}, min : 0..MaxArg,
                result : {None}]

CallGetState ==
  /\ args.result = None
  /\ args' = [args EXCEPT !.result = getState(args.qty, args.min)]
  /\ UNCHANGED <<item, events, inv, alertsLog, alerts, pushes, devicePushTokens,
                 movements, disposals, op, pendingDelete, writes, now,
                 session, unreadCount, marked, reg, views>>

SpecGetState == InitGetState /\ [][CallGetState]_vars

(***************************************************************************)
(* SpecFanout: one invocation of the trigger on its own, for the event of  *)
(* one stock adjustment, over every population of registrations.           *)
(***************************************************************************)
\* The document after updateDoc at line 495 of app/item/[id].tsx.
Adjusted(doc, delta) ==
  [doc EXCEPT !.currentQuantity = Max(0, Num(doc.currentQuantity) + delta),
              !.isLowStock = Max(0, Num(doc.currentQuantity) + delta)
                               <= Num(doc.minQuantity)]

\* What the document devicePushTokens/{t} can be: absent, registered and
\* enabled at either site, registered and disabled.
RegistrationKinds(t) ==
  {NoRegistration, Registration(t, "s1", TRUE), Registration(t, "s2", TRUE),
   Registration(t, "s1", FALSE)}

InitFanout ==
  /\ InitRecords
  /\ \E doc \in InitItems, delta \in Deltas :
       /\ Adjusted(doc, delta).currentQuantity <= MaxQty
       /\ item = Adjusted(doc, delta)
       /\ events = <<[before |-> doc, after |-> Adjusted(doc, delta)]>>
       /\ movements = <<[delta |-> delta,
                         previousQuantity |-> Num(doc.currentQuantity),
                         newQuantity |-> Adjusted(doc, delta).currentQuantity]>>
  /\ inv = <<IdleInv>>
  /\ devicePushTokens \in [Tokens -> UNION {RegistrationKinds(t) : t \in Tokens}]
  /\ \A t \in Tokens : devicePushTokens[t] \in RegistrationKinds(t)
  /\ disposals = <<>>
  /\ op = [d \in Devices |-> Idle]
  /\ writes = 1
  /\ args = NoCall

NextFanout == \E e \in DOMAIN inv : Trigger(e)

SpecFanout == InitFanout /\ [][NextFanout]_vars

\* The runtime runs a started invocation on: every await of the handler
\* returns.
SpecFanoutLive == SpecFanout /\ WF_vars(NextFanout)

\* The update event and the movement record of one adjustment of doc.
AdjustEvent(doc, delta) == [before |-> doc, after |-> Adjusted(doc, delta)]
AdjustMovement(doc, delta) ==
  [delta |-> delta, previousQuantity |-> Num(doc.currentQuantity),
   newQuantity |-> Adjusted(doc, delta).currentQuantity]

(***************************************************************************)
(* SpecRetry: one stock adjustment whose event the platform delivers more  *)
(* than once (at-least-once delivery, or the retry of a run that raised):  *)
(* the handler is invoked again with the same before and after snapshots.  *)
(***************************************************************************)
InitRetry ==
  /\ InitRecords
  /\ \E doc \in InitItems, delta \in Deltas :
       /\ Adjusted(doc, delta).currentQuantity <= MaxQty
       /\ item = Adjusted(doc, delta)
       /\ events = <<AdjustEvent(doc, delta)>>
       /\ movements = <<AdjustMovement(doc, delta)>>
  /\ inv = <<IdleInv>>
  /\ devicePushTokens = [t \in Tokens |->
       IF t = "t1" THEN Registration(t, "s1", TRUE)
       ELSE IF t = "t2" THEN Registration(t, "s2", TRUE)
       ELSE NoRegistration]
  /\ disposals = <<>>
  /\ op = [d \in Devices |-> Idle]
  /\ writes = 1
  /\ args = NoCall

\* The platform invokes the handler again for event e, whose earlier run
\* has ended.
Redeliver(e) ==
  /\ Ended(e)
  /\ Cardinality(AuditOf(e)) <= MaxRetries
  /\ inv' = [inv EXCEPT ![e] = IdleInv]
  /\ UNCHANGED <<item, events, alertsLog, alerts, pushes, devicePushTokens, now>>
  /\ TriggerFrame

NextRetry ==
  \/ \E e \in DOMAIN inv : Trigger(e)
  \/ \E e \in DOMAIN inv : Redeliver(e)

SpecRetry == InitRetry /\ [][NextRetry]_vars

(***************************************************************************)
(* SpecRace: three stock adjustments by one in quick succession, written   *)
(* before any invocation has started; the invocations for their events and *)
(* for the events of the trigger's own writes run in any interleaving.     *)
(***************************************************************************)
StepDeltas == {0 - 1, 1}

InitRace ==
  /\ InitRecords
  /\ \E d1, d2, d3 \in StepDeltas :
       LET doc0 == Created(3, 2, "s1")
           doc1 == Adjusted(doc0, d1)
           doc2 == Adjusted(doc1, d2)
           doc3 == Adjusted(doc2, d3)
       IN /\ doc1.currentQuantity <= MaxQty
          /\ doc2.currentQuantity <= MaxQty
          /\ doc3.currentQuantity <= MaxQty
          /\ item = doc3
          /\ events = <<AdjustEvent(doc0, d1), AdjustEvent(doc1, d2),
                        AdjustEvent(doc2, d3)>>
          /\ movements = <<AdjustMovement(doc0, d1), AdjustMovement(doc1, d2),
                           AdjustMovement(doc2, d3)>>
  /\ inv = <<IdleInv, IdleInv, IdleInv>>
  /\ devicePushTokens = [t \in Tokens |->
       IF t = "t1" THEN Registration(t, "s1", TRUE)
       ELSE IF t = "t2" THEN Registration(t, "s2", TRUE)
       ELSE NoRegistration]
  /\ disposals = <<>>
  /\ op = [d \in Devices |-> Idle]
  /\ writes = 3
  /\ args = NoCall

NextRace == \E e \in DOMAIN inv : Trigger(e)

SpecRace == InitRace /\ [][NextRace]_vars

(***************************************************************************)
(* The Alerts tab: read receipts and the unread badge.                     *)
(***************************************************************************)
AlertId(f) == <<f.ev, f.n>>

\* setDoc(ref, {readBy: {[token]: true}}, {merge: true}): the entry is added
\* to the map, the entries of the other tokens stay.  readBy is kept as the
\* set of the tokens that map to true; nothing writes another value.
MergeRead(readBy, token) == readBy \cup {token}

\* hooks/usePushNotifications.ts line 70: setToken(expoToken).
tokenReady(d) ==
  /\ session[d].token = None
  /\ session' = [session EXCEPT ![d].token = DeviceToken[d]]
  /\ UNCHANGED <<item, events, inv, alertsLog, alerts, pushes, devicePushTokens,
                 movements, disposals, op, pendingDelete, writes, now, args,
                 unreadCount, marked, reg, views>>

\* useUserProfile: the profile snapshot brings the siteId.
profileLoaded(d) ==
  /\ session[d].siteId = None
  /\ session' = [session EXCEPT ![d].siteId = ProfileSite[d]]
  /\ UNCHANGED <<item, events, inv, alertsLog, alerts, pushes, devicePushTokens,
                 movements, disposals, op, pendingDelete, writes, now, args,
                 unreadCount, marked, reg, views>>

\* The loop of the snapshot callback: one pass over the documents with a
\* counter.
RECURSIVE CountUnread(_, _)
CountUnread(docs, token) ==
  IF docs = {} THEN 0
  ELSE LET doc == CHOOSE f \in docs : TRUE
           isUnread == ~(token \in doc.readBy)
       IN (IF isUnread THEN 1 ELSE 0) + CountUnread(docs \ {doc}, token)

\* hooks/useUnreadAlerts.ts without the where on siteId.
useUnreadAlertsAllSites(siteId, token) ==
  IF siteId = None \/ token = None THEN 0
  ELSE CountUnread(alerts, token)

\* hooks/useUnreadAlerts.ts: what the hook returns once the listener has
\* delivered the present documents.
useUnreadAlerts(siteId, token) ==
  IF siteId = None \/ token = None THEN 0
  ELSE CountUnread({f \in alerts : f.siteId = siteId}, token)

\* hooks/useUnreadAlertsCount.ts: the same count, with the arguments in the
\* other order.
useUnreadAlertsCount(token, siteId) ==
  IF token = None \/ siteId = None THEN 0
  ELSE CountUnread({f \in alerts : f.siteId = siteId}, token)

\* The listener of useUnreadAlerts fires.
unreadSnapshot(d) ==
  /\ session[d].siteId # None /\ session[d].token # None
  /\ unreadCount' = [unreadCount EXCEPT ![d] =
                        useUnreadAlerts(session[d].siteId, session[d].token)]
  /\ UNCHANGED <<item, events, inv, alertsLog, alerts, pushes, devicePushTokens,
                 movements, disposals, op, pendingDelete, writes, now, args,
                 session, marked, reg, views>>

\* markOneAsRead with the readBy map replaced, not merged.
markOneAsReadReplace(d, alertId) ==
  /\ \E f \in alerts : AlertId(f) = alertId /\ f.siteId = session[d].siteId
  /\ IF session[d].token = None
       THEN UNCHANGED <<alerts, marked, reg, views>>
       ELSE /\ alerts' = {IF AlertId(f) = alertId
                            THEN [f EXCEPT !.readBy = {session[d].token}]
                            ELSE f : f \in alerts}
            /\ marked' = [marked EXCEPT ![d] = @ \cup {alertId}]
  /\ UNCHANGED <<item, events, inv, alertsLog, pushes, devicePushTokens,
                 movements, disposals, op, pendingDelete, writes, now, args,
                 session, unreadCount, reg, views>>

\* markOneAsRead with every alert of the list written.
markOneAsReadAll(d, alertId) ==
  /\ \E f \in alerts : AlertId(f) = alertId /\ f.siteId = session[d].siteId
  /\ IF session[d].token = None
       THEN UNCHANGED <<alerts, marked, reg, views>>
       ELSE /\ alerts' = {IF f.siteId = session[d].siteId
                            THEN [f EXCEPT !.readBy = MergeRead(@, session[d].token)]
                            ELSE f : f \in alerts}
            /\ marked' = [marked EXCEPT ![d] = @ \cup {alertId}]
  /\ UNCHANGED <<item, events, inv, alertsLog, pushes, devicePushTokens,
                 movements, disposals, op, pendingDelete, writes, now, args,
                 session, unreadCount, reg, views>>

\* markOneAsRead with the entry of another token dropped from the map.
markOneAsReadDrop(d, alertId) ==
  /\ \E f \in alerts : AlertId(f) = alertId /\ f.siteId = session[d].siteId
  /\ IF session[d].token = None
       THEN UNCHANGED <<alerts, marked, reg, views>>
       ELSE /\ alerts' = {IF AlertId(f) = alertId
                            THEN [f EXCEPT !.readBy =
                                    {session[d].token} \cup (@ \ {"t1"})]
                            ELSE f : f \in alerts}
            /\ marked' = [marked EXCEPT ![d] = @ \cup {alertId}]
  /\ UNCHANGED <<item, events, inv, alertsLog, pushes, devicePushTokens,
                 movements, disposals, op, pendingDelete, writes, now, args,
                 session, unreadCount, reg, views>>

\* app/(tabs)/alerts.tsx markOneAsRead, for a row of the list: the list holds
\* the alerts of the profile's site.
markOneAsRead(d, alertId) ==
  /\ \E f \in alerts : AlertId(f) = alertId /\ f.siteId = session[d].siteId
  /\ IF session[d].token = None
       THEN UNCHANGED <<alerts, marked, reg, views>>
       ELSE /\ alerts' = {IF AlertId(f) = alertId
                            THEN [f EXCEPT !.readBy = MergeRead(@, session[d].token)]
                            ELSE f : f \in alerts}
            /\ marked' = [marked EXCEPT ![d] = @ \cup {alertId}]
  /\ UNCHANGED <<item, events, inv, alertsLog, pushes, devicePushTokens,
                 movements, disposals, op, pendingDelete, writes, now, args,
                 session, unreadCount, reg, views>>

\* The two view buttons of the Alerts tab: setViewMode("unread") and
\* setViewMode("history").  The listener is subscribed again with another
\* limit; nothing is written.
setViewMode(d, mode) ==
  /\ session[d].viewMode # mode
  /\ session' = [session EXCEPT ![d].viewMode = mode]
  /\ UNCHANGED <<item, events, inv, alertsLog, alerts, pushes, devicePushTokens,
                 movements, disposals, op, pendingDelete, writes, now, args,
                 unreadCount, marked, reg, views>>

\* isUnread of the Alerts tab: without a token every alert counts as unread.
isUnread(d, a) ==
  IF session[d].token = None THEN TRUE ELSE ~(session[d].token \in a.readBy)

\* filteredAlerts: the listener's alerts of the profile's site, all of them
\* in the history view, the unread ones in the unread view.
filteredAlerts(d) ==
  LET listed == {a \in alerts : a.siteId = session[d].siteId}
  IN IF session[d].viewMode = "history" THEN listed
     ELSE {a \in listed : isUnread(d, a)}

\* renderAlert with a row that marks the alert read in either view.
renderAlertAnyMode(d, alertId) ==
  /\ alertId \in {AlertId(a) : a \in filteredAlerts(d)}
  /\ markOneAsRead(d, alertId)

\* renderAlert, the onPress of a row of the list: in the history view the
\* row is disabled and the press does nothing.
renderAlert(d, alertId) ==
  /\ alertId \in {AlertId(a) : a \in filteredAlerts(d)}
  /\ IF session[d].viewMode = "unread"
       THEN markOneAsRead(d, alertId)
       ELSE UNCHANGED vars

(***************************************************************************)
(* SpecRead: two devices of one site on the Alerts tab while the trigger   *)
(* handles the event of one stock adjustment; the alerts collection holds  *)
(* two older feed records, one per site.                                   *)
(***************************************************************************)
OldAlerts ==
  { [ev |-> 0, n |-> 1, type |-> Type("OUT"), title |-> Title("OUT"),
     body |-> Body("OUT", 0, 1), qty |-> 0, min |-> 1, siteId |-> "s1",
     readBy |-> {}],
    [ev |-> 0, n |-> 2, type |-> Type("OK"), title |-> Title("OK"),
     body |-> Body("OK", 4, 1), qty |-> 4, min |-> 1, siteId |-> "s2",
     readBy |-> {"t2"}] }

InitRead ==
  /\ InitScreens
  /\ item = Adjusted(Created(3, 2, "s1"), 0 - 1)
  /\ events = <<[before |-> Created(3, 2, "s1"), after |-> item]>>
  /\ inv = <<IdleInv>>
  /\ alertsLog = {}
  /\ alerts = OldAlerts
  /\ pushes = {}
  /\ devicePushTokens = [t \in Tokens |->
       IF t = "t2" THEN Registration(t, "s2", TRUE) ELSE Registration(t, "s1", TRUE)]
  /\ movements = <<[delta |-> 0 - 1, previousQuantity |-> 3, newQuantity |-> 2]>>
  /\ disposals = <<>>
  /\ op = [d \in Devices |-> Idle]
  /\ pendingDelete = [d \in Devices |-> NoBackup]
  /\ writes = 1
  /\ now = 0
  /\ args = NoCall

Read(d) ==
  \/ tokenReady(d)
  \/ profileLoaded(d)
  \/ unreadSnapshot(d)
  \/ \E mode \in {"unread", "history"} : setViewMode(d, mode)
  \/ \E f \in alerts : renderAlert(d, AlertId(f))

NextRead ==
  \/ \E d \in Readers : Read(d)
  \/ \E e \in DOMAIN inv : Trigger(e)

SpecRead == InitRead /\ [][NextRead]_vars

(***************************************************************************)
(* Registration of push tokens: notifications/savePushToken.ts, the save   *)
(* of hooks/usePushNotifications.ts and components/DeviceRegistration.tsx. *)
(***************************************************************************)
\* String(siteId ?? "").trim() over the siteId arguments of SiteArgs.
Trim(s) == IF s = " " THEN "" ELSE IF s = " s2" THEN "s2" ELSE s

\* The tokens the devices hold.
DeviceTokens == {DeviceToken[d] : d \in Readers}

RegFrame ==
  UNCHANGED <<item, events, inv, alertsLog, alerts, pushes, movements,
              disposals, op, pendingDelete, writes, now, args, session,
              unreadCount, marked, views>>

\* setDoc(ref, {token, uid, siteId, enabled: true, ...}, {merge: true}):
\* the fields given are written, the other fields of the document stay.
MergedRegistration(doc, token, uid, siteId) ==
  [doc EXCEPT !.exists = TRUE, !.token = token, !.uid = uid,
              !.siteId = siteId, !.enabled = TRUE]

\* The call of caller c has returned: its arguments, what getDoc gave it
\* (nothing when it returned before the getDoc) and what it did.
Returned(c, result, user, token, siteId, existing) ==
  [reg EXCEPT ![c] = [pc |-> "idle", result |-> result, user |-> user,
                      token |-> token, siteId |-> siteId,
                      existing |-> existing]]

\* savePushToken without the comparison of the uids (lines 36-39).
savePushTokenCheckNoUid(c, user, token, siteId) ==
  /\ reg[c].pc = "idle"
  /\ LET cleanSiteId == Trim(siteId)
         existing == devicePushTokens[token]
     IN reg' =
          IF user = None
            THEN Returned(c, "skipped", user, token, siteId, NoRegistration)
          ELSE IF cleanSiteId = ""
            THEN Returned(c, "skipped", user, token, siteId, NoRegistration)
          ELSE IF /\ existing.exists
                  /\ existing.siteId # None
                  /\ existing.siteId # cleanSiteId
            THEN Returned(c, "skipped", user, token, siteId, existing)
          ELSE [reg EXCEPT ![c] = [pc |-> "setDoc", result |-> None,
                                   user |-> user, token |-> token,
                                   siteId |-> siteId, existing |-> existing]]
  /\ UNCHANGED devicePushTokens
  /\ RegFrame

\* savePushToken, lines 11-49: the early returns and the getDoc; the call
\* stops at the await of setDoc.
savePushTokenCheck(c, user, token, siteId) ==
  /\ reg[c].pc = "idle"
  /\ LET cleanSiteId == Trim(siteId)
         existing == devicePushTokens[token]
     IN reg' =
          IF user = None
            THEN Returned(c, "skipped", user, token, siteId, NoRegistration)
          ELSE IF cleanSiteId = ""
            THEN Returned(c, "skipped", user, token, siteId, NoRegistration)
          ELSE IF /\ existing.exists
                  /\ existing.uid # None
                  /\ existing.uid # user
            THEN Returned(c, "skipped", user, token, siteId, existing)
          ELSE IF /\ existing.exists
                  /\ existing.siteId # None
                  /\ existing.siteId # cleanSiteId
            THEN Returned(c, "skipped", user, token, siteId, existing)
          ELSE [reg EXCEPT ![c] = [pc |-> "setDoc", result |-> None,
                                   user |-> user, token |-> token,
                                   siteId |-> siteId, existing |-> existing]]
  /\ UNCHANGED devicePushTokens
  /\ RegFrame

\* The setDoc of savePushToken inside a transaction with the check: the
\* write is dropped when the document has changed since the getDoc.
savePushTokenSetDocGuarded(c) ==
  /\ reg[c].pc = "setDoc"
  /\ devicePushTokens' =
       IF devicePushTokens[reg[c].token] = reg[c].existing
         THEN [devicePushTokens EXCEPT ![reg[c].token] =
                 MergedRegistration(@, reg[c].token, reg[c].user,
                                    Trim(reg[c].siteId))]
         ELSE devicePushTokens
  /\ reg' = Returned(c, "saved", reg[c].user, reg[c].token, reg[c].siteId,
                     reg[c].existing)
  /\ RegFrame

\* savePushToken, lines 51-68: the setDoc with merge.
savePushTokenSetDoc(c) ==
  /\ reg[c].pc = "setDoc"
  /\ devicePushTokens' =
       [devicePushTokens EXCEPT ![reg[c].token] =
          MergedRegistration(@, reg[c].token, reg[c].user, Trim(reg[c].siteId))]
  /\ reg' = Returned(c, "saved", reg[c].user, reg[c].token, reg[c].siteId,
                     reg[c].existing)
  /\ RegFrame

\* savePushToken, lines 69-71: the setDoc is rejected and the catch logs it.
savePushTokenCatch(c) ==
  /\ reg[c].pc = "setDoc"
  /\ reg' = Returned(c, "failed", None, None, None, NoRegistration)
  /\ UNCHANGED devicePushTokens
  /\ RegFrame

\* hooks/usePushNotifications.ts, register(), lines 74-96: the save of the
\* token once the device has it, with auth.currentUser and siteIdRef.
usePushNotificationsSave(user, token, siteId) ==
  /\ IF user = None \/ siteId = None
       THEN UNCHANGED devicePushTokens
       ELSE devicePushTokens' =
              [devicePushTokens EXCEPT ![token] =
                 MergedRegistration(@, token, user, siteId)]
  /\ UNCHANGED reg
  /\ RegFrame

\* components/DeviceRegistration.tsx handleRegisterOrUpdate, with a label
\* typed in.
handleRegisterOrUpdate(uid, siteId, token) ==
  /\ IF uid = None \/ siteId = None \/ token = None
       THEN UNCHANGED devicePushTokens
       ELSE devicePushTokens' =
              [devicePushTokens EXCEPT ![token] =
                 MergedRegistration(@, token, uid, siteId)]
  /\ UNCHANGED reg
  /\ RegFrame

\* components/DeviceRegistration.tsx handleResetToken, confirmed: deleteDoc.
handleResetToken(token) ==
  /\ token # None
  /\ devicePushTokens[token].exists
  /\ devicePushTokens' = [devicePushTokens EXCEPT ![token] = NoRegistration]
  /\ UNCHANGED reg
  /\ RegFrame

(***************************************************************************)
(* SpecRegister: two users, each signed in or not, registering the tokens  *)
(* of two devices by any of the three paths, two calls of savePushToken at *)
(* a time.                                                                 *)
(***************************************************************************)
InitRegister ==
  /\ item = NoItem
  /\ InitStore
  /\ args = NoCall

NextRegister ==
  \/ \E c \in Callers, user \in Uids \cup {None}, token \in DeviceTokens,
         siteId \in SiteArgs : savePushTokenCheck(c, user, token, siteId)
  \/ \E c \in Callers : savePushTokenSetDoc(c)
  \/ \E c \in Callers : savePushTokenCatch(c)
  \/ \E user \in Uids \cup {None}, token \in DeviceTokens,
         siteId \in SiteIds \cup {None} :
       usePushNotificationsSave(user, token, siteId)
  \/ \E uid \in Uids, token \in DeviceTokens \cup {None}, siteId \in SiteIds :
       handleRegisterOrUpdate(uid, siteId, token)
  \/ \E token \in DeviceTokens : handleResetToken(token)

SpecRegister == InitRegister /\ [][NextRegister]_vars

(***************************************************************************)
(* SpecStale: two devices with the screen of the same item open.  Each     *)
(* handler works on the item the screen holds (the state set by the        *)
(* onSnapshot listener), which lags behind the stored document; a device   *)
(* sees its own write at once.                                             *)
(***************************************************************************)
\* The onSnapshot callback of app/item/[id].tsx: setItem(loaded).
itemSnapshot(d) ==
  /\ views[d] # item
  /\ views' = [views EXCEPT ![d] = item]
  /\ UNCHANGED <<item, events, inv, alertsLog, alerts, pushes, devicePushTokens,
                 movements, disposals, op, pendingDelete, writes, now, args,
                 session, unreadCount, marked, reg>>

\* The write of device d is stored and its own listener has not fired yet:
\* the local cache fires it before anything else happens on the device.
EchoPending(d) ==
  op[d].name = "movement" /\ Num(views[d].currentQuantity) # op[d].newQuantity

\* The screens have loaded the item.
InitStale ==
  /\ item \in {doc \in InitItems : doc.siteId # None}
  /\ views = [d \in Readers |-> item]
  /\ session = [d \in Readers |-> NoSession]
  /\ unreadCount = [d \in Readers |-> 0]
  /\ marked = [d \in Readers |-> {}]
  /\ reg = [c \in Callers |-> NoReg]
  /\ alertsLog = {}
  /\ alerts = {}
  /\ pushes = {}
  /\ pendingDelete = [d \in Readers |-> NoBackup]
  /\ now = 0
  /\ events = <<>>
  /\ inv = <<>>
  /\ devicePushTokens = [t \in Tokens |->
       IF t = "t2" THEN Registration(t, "s2", TRUE) ELSE Registration(t, "s1", TRUE)]
  /\ movements = <<>>
  /\ disposals = <<>>
  /\ op = [d \in Readers |-> Idle]
  /\ writes = 0
  /\ args = NoCall

NextStale ==
  \/ \E d \in Readers : EchoPending(d) /\ itemSnapshot(d)
  \/ /\ \A d \in Readers : ~EchoPending(d)
     /\ \/ \E d \in Readers : itemSnapshot(d)
        \/ \E d \in Readers, delta \in Deltas :
             writes < MaxStaleWrites /\ applyQuantityChange(d, views[d], delta)
        \/ \E d \in Readers, qty \in DisposalQtys :
             writes < MaxStaleWrites /\ confirmDisposal(d, views[d], qty)
        \/ \E d \in Readers : Finish(d)

SpecStale == InitStale /\ [][NextStale]_vars

(***************************************************************************)
(* SpecReset: one invocation of the trigger for the event of one stock     *)
(* adjustment while the devices of the item's site reset their tokens.     *)
(***************************************************************************)
InitReset ==
  /\ InitRecords
  /\ \E doc \in InitItems, delta \in Deltas :
       /\ Adjusted(doc, delta).currentQuantity <= MaxQty
       /\ item = Adjusted(doc, delta)
       /\ events = <<AdjustEvent(doc, delta)>>
       /\ movements = <<AdjustMovement(doc, delta)>>
  /\ inv = <<IdleInv>>
  /\ devicePushTokens = [t \in Tokens |->
       IF t = "t2" THEN Registration(t, "s2", TRUE) ELSE Registration(t, "s1", TRUE)]
  /\ disposals = <<>>
  /\ op = [d \in Devices |-> Idle]
  /\ writes = 1
  /\ args = NoCall

NextReset ==
  \/ \E e \in DOMAIN inv : Trigger(e)
  \/ \E token \in DeviceTokens : handleResetToken(token)

SpecReset == InitReset /\ [][NextReset]_vars

(***************************************************************************)
(* Properties.                                                             *)
(***************************************************************************)
\* The classification of the claims, written out from the quantities.
Bucket(q, m) == IF q <= 0 THEN "OUT" ELSE IF q <= m THEN "LOW" ELSE "OK"
SameBucket(e) ==
  \/ beforeQty(e) = afterQty(e)
  \/ Bucket(beforeQty(e), minQty(e)) = Bucket(afterQty(e), minQty(e))

\* C1: getState returns exactly one of OUT, LOW, OK for every integer
\* quantity and every minimum >= 0: OUT iff qty <= 0 (negative included), LOW
\* iff 0 < qty <= min, OK iff qty > min; getState(0, m) is OUT for every m.
C1_GetStateTotal ==
  args.result # None =>
    LET q == IF args.qty = Undefined THEN 0 ELSE args.qty
    IN /\ args.result \in {"OUT", "LOW", "OK"}
       /\ (q <= 0) <=> (args.result = "OUT")
       /\ (0 < q /\ q <= args.min) <=> (args.result = "LOW")
       /\ (q > 0 /\ q > args.min) <=> (args.result = "OK")

C1_Witness == args.qty = 0 /\ args.min > 0 /\ args.result = "OUT"

\* C2: an invocation whose before and after quantities are equal, or whose
\* quantities fall into the same bucket, ends at once and writes nothing:
\* no item field, no audit record, no feed record, no push, no registration,
\* whatever the alert fields of the item are.
C2_NoAlertWithoutTransition ==
  [][\A e \in DOMAIN inv :
       (SameBucket(e) /\ inv'[e] # inv[e]) =>
          /\ inv[e].pc = "pending"
          /\ inv'[e].pc = "done"
          /\ UNCHANGED <<item, alertsLog, alerts, pushes, devicePushTokens>>]_vars

C2_Witness ==
  \E e \in DOMAIN inv :
    /\ inv[e].pc = "done"
    /\ beforeQty(e) # afterQty(e)
    /\ SameBucket(e)
    /\ events[e].after.lastAlertState = "LOW"
    /\ item.alertState = events[e].after.alertState

\* C3: an alert-worthy invocation suppresses iff the event's lastAlertState
\* is the next state and less than 10 minutes have passed since its
\* lastAlertAt (none counts as never; exactly 10 does not suppress).  The
\* suppressed invocation sets alertState to the next state, leaves
\* lastAlertAt and lastAlertState alone and creates no audit record, no feed
\* record and no push.
C3_SuppressIffCooldown ==
  [][\A e \in DOMAIN inv :
       /\ (inv[e].pc = "pending" /\ inv'[e].pc # "pending" /\ ~SameBucket(e)) =>
            /\ inv'[e].pc \in {"suppress", "markers"}
            /\ (inv'[e].pc = "suppress") <=>
                 (/\ events[e].after.lastAlertState = Bucket(afterQty(e), minQty(e))
                  /\ events[e].after.lastAlertAt # NoTime
                  /\ now' - events[e].after.lastAlertAt < 10)
       /\ (inv[e].pc = "suppress" /\ inv'[e].pc # "suppress") =>
            /\ inv'[e].pc = "suppressed"
            /\ item'.alertState = Bucket(afterQty(e), minQty(e))
            /\ item'.lastAlertAt = item.lastAlertAt
            /\ item'.lastAlertState = item.lastAlertState
            /\ UNCHANGED <<alertsLog, alerts, pushes>>
       /\ inv'[e].pc \in {"suppress", "suppressed"} =>
            /\ AuditIn(alertsLog', e) = {}
            /\ FeedIn(alerts', e) = {}
            /\ PushIn(pushes', e) = {}]_vars

C3_Witness ==
  \E e \in DOMAIN inv :
    /\ inv[e].pc = "suppressed"
    /\ events[e].after.lastAlertState = "LOW"
    /\ events[e].after.lastAlertAt = 0
    /\ now = 5
    /\ item.alertState = "LOW"
    /\ events[e].after.alertState = "OK"
    /\ alertsLog = {} /\ alerts = {}

C5_NoStorm ==
  (/\ now < COOLDOWN_MINUTES
   /\ disposals = <<>>
   /\ Len(movements) = writes - 1
   /\ \A k \in DOMAIN movements : movements[k].delta \in {0 - 1, 1}) =>
    \A r, t \in alerts : r # t => r.type # t.type

\* C6: once a stock mutation and every invocation it caused have completed,
\* the item's alertState is the classification of its currentQuantity
\* against its minQuantity.
C6_AlertStateIsClassification ==
  (Quiescent /\ item.exists) =>
    item.alertState = Bucket(Num(item.currentQuantity), Num(item.minQuantity))

\* C7: the allowed invocation sets alertState, lastAlertState (both to the
\* next state) and lastAlertAt (to the time of the write) in one write, the
\* two cooldown markers change in no other step, and the write comes before
\* any audit record, feed record or push of that invocation.
C7_MarkersTogether ==
  [][/\ \A e \in DOMAIN inv :
          /\ (inv[e].pc = "markers" /\ inv'[e].pc # "markers") =>
               /\ inv'[e].pc = "tokens"
               /\ item'.alertState = Bucket(afterQty(e), minQty(e))
               /\ item'.lastAlertState = Bucket(afterQty(e), minQty(e))
               /\ item'.lastAlertAt = now'
               /\ UNCHANGED <<alertsLog, alerts, pushes>>
          /\ inv'[e].pc \in {"pending", "markers"} =>
               /\ AuditIn(alertsLog', e) = {}
               /\ FeedIn(alerts', e) = {}
               /\ PushIn(pushes', e) = {}
     /\ (item'.lastAlertAt # item.lastAlertAt
           \/ item'.lastAlertState # item.lastAlertState) =>
          \E e \in DOMAIN inv : inv[e].pc = "markers" /\ inv'[e].pc = "tokens"]_vars

C7_Witness ==
  \E e \in DOMAIN inv :
    /\ inv[e].pc = "tokens"
    /\ events[e].after.lastAlertState = "LOW"
    /\ events[e].after.lastAlertAt = 0
    /\ item.alertState = "OUT"
    /\ item.lastAlertState = "OUT"
    /\ item.lastAlertAt = 5
    /\ AuditOf(e) = {} /\ FeedOf(e) = {} /\ PushOf(e) = {}

C11_TerminalStatus ==
  /\ [][/\ \A r \in alertsLog :
            r.status \in {"sent", "error", "no_tokens"} =>
              \E q \in alertsLog' :
                q.ev = r.ev /\ q.n = r.n /\ q.status = r.status
        /\ \A q \in alertsLog' :
            (\A r \in alertsLog : r.ev # q.ev \/ r.n # q.n) =>
              q.status \in {"sending", "no_tokens"}
        /\ alerts \subseteq alerts']_vars
  /\ (\E r \in alertsLog : r.status = "sending")
       ~> (\E r \in alertsLog : r.status \in {"sent", "error"})

C11_Witness ==
  \E r \in alertsLog :
    /\ r.status = "sent"
    /\ r.tokenCount = 2
    /\ inv[r.ev].pc = "done"
    /\ FeedOf(r.ev) # {}

\* C12: the tokens an invocation resolves are registered, enabled and of the
\* event's site, each once; the gateway is called with exactly these tokens,
\* one message each, so no message goes to a token of another site or to a
\* token that was disabled when the tokens were resolved.
C12_FanoutScoped ==
  \A e \in DOMAIN inv :
    /\ inv[e].pc \in {"audit", "feed", "send"} =>
         /\ \A i \in DOMAIN inv[e].tokens :
              /\ devicePushTokens[inv[e].tokens[i]].exists
              /\ devicePushTokens[inv[e].tokens[i]].enabled
              /\ devicePushTokens[inv[e].tokens[i]].siteId = events[e].after.siteId
         /\ \A i, j \in DOMAIN inv[e].tokens :
              i # j => inv[e].tokens[i] # inv[e].tokens[j]
    /\ \A p \in PushOf(e) :
         /\ inv[e].pc \in {"sent", "error"} => p.to = inv[e].tokens
         /\ \A i, j \in DOMAIN p.to : i # j => p.to[i] # p.to[j]
         /\ \A i \in DOMAIN p.to :
              /\ devicePushTokens[p.to[i]].exists
              /\ devicePushTokens[p.to[i]].siteId = events[e].after.siteId
              /\ \/ devicePushTokens[p.to[i]].enabled
                 \/ devicePushTokens[p.to[i]].disableReason = "DeviceNotRegistered"

C12_Witness ==
  \E p \in pushes :
    /\ p.to = <<"t1", "t3">>
    /\ inv[p.ev].pc = "sent"
    /\ devicePushTokens["t2"].enabled
    /\ devicePushTokens["t2"].siteId = "s2"

\* C13: a registration changes only in the step that disables the token of
\* the message whose ticket, at the same index, is a DeviceNotRegistered
\* error, and no other registration changes in that step; when the loop over
\* the tickets ends, the tokens at the indexes of these tickets are disabled
\* and every other token of the dispatch is still enabled.
C13_DisableByIndex ==
  [][/\ \A t \in Tokens :
          devicePushTokens'[t] # devicePushTokens[t] =>
            /\ ~devicePushTokens'[t].enabled
            /\ \A u \in Tokens \ {t} : devicePushTokens'[u] = devicePushTokens[u]
            /\ \E e \in DOMAIN inv :
                 /\ inv[e].pc = "disable"
                 /\ inv[e].tokens[inv[e].i] = t
                 /\ inv[e].tickets[inv[e].i] = "DeviceNotRegistered"
     /\ \A e \in DOMAIN inv :
          (inv[e].pc \in {"sent", "disable"} /\ inv'[e].pc = "done") =>
            \A k \in DOMAIN inv[e].tickets :
              devicePushTokens'[inv[e].tokens[k]].enabled
                <=> (inv[e].tickets[k] # "DeviceNotRegistered")]_vars

C13_Witness ==
  \E e \in DOMAIN inv :
    /\ inv[e].pc = "disable"
    /\ inv[e].tokens = <<"t1", "t2", "t3">>
    /\ inv[e].tickets =
         <<"DeviceNotRegistered", "MessageRateExceeded", "DeviceNotRegistered">>
    /\ inv[e].i = 3
    /\ ~devicePushTokens["t1"].enabled
    /\ devicePushTokens["t1"].disableReason = "DeviceNotRegistered"
    /\ devicePushTokens["t2"].enabled
    /\ devicePushTokens["t3"].enabled

\* C14: after a gateway call that failed the invocation makes no other call,
\* disables none of the tokens it addressed, and ends by raising, with the
\* audit record at "error" and the error text in it.
C14_GatewayFailure ==
  \A p \in pushes :
    ~p.ok =>
      /\ PushOf(p.ev) = {p}
      /\ inv[p.ev].pc \in {"error", "raised"}
      /\ inv[p.ev].pc = "raised" =>
           /\ AuditOf(p.ev) # {}
           /\ \A r \in AuditOf(p.ev) :
                r.status = "error" /\ r.error = "Expo push failed"
      /\ \A i \in DOMAIN p.to : devicePushTokens[p.to[i]].enabled

C14_Witness ==
  \E p \in pushes :
    /\ ~p.ok
    /\ p.to = <<"t2", "t3">>
    /\ inv[p.ev].pc = "raised"
    /\ \E r \in AuditOf(p.ev) : r.status = "error" /\ r.tokenCount = 2

\* C15: an invocation whose gateway call failed has its feed record, and
\* the record stays; no step of any invocation changes the item's
\* currentQuantity or minQuantity, so the stock write that fired the trigger
\* stands.
C15_StockUntouched ==
  /\ [](\A e \in DOMAIN inv :
          inv[e].pc \in {"error", "raised"} => Cardinality(FeedOf(e)) = 1)
  /\ [][/\ \A e \in DOMAIN inv :
            inv'[e] # inv[e] =>
              /\ item'.currentQuantity = item.currentQuantity
              /\ item'.minQuantity = item.minQuantity
        /\ \A f \in alerts :
            \E g \in alerts' : g.ev = f.ev /\ g.n = f.n]_vars

C15_Witness ==
  \E e \in DOMAIN inv :
    /\ inv[e].pc = "raised"
    /\ \E p \in PushOf(e) : ~p.ok
    /\ \E f \in FeedOf(e) : f.type = "low"
    /\ beforeQty(e) = 3
    /\ afterQty(e) = 2
    /\ item.currentQuantity = 2

\* C16: after a gateway call that succeeded, whatever the tickets say, the
\* invocation marks the audit record "sent", never "error", and ends
\* without raising.
C16_TicketErrorsStillSent ==
  \A p \in pushes :
    p.ok =>
      /\ inv[p.ev].pc \in {"sent", "disable", "done"}
      /\ inv[p.ev].pc \in {"disable", "done"} =>
           /\ AuditOf(p.ev) # {}
           /\ \A r \in AuditOf(p.ev) : r.status = "sent" /\ r.error = None

C16_Witness ==
  \E p \in pushes :
    /\ p.ok
    /\ p.to = <<"t1", "t2">>
    /\ inv[p.ev].pc = "done"
    /\ ~devicePushTokens["t2"].enabled
    /\ devicePushTokens["t2"].disableReason = "DeviceNotRegistered"
    /\ devicePushTokens["t1"].enabled
    /\ \E r \in AuditOf(p.ev) : r.status = "sent"

\* C17: a feed record that exists changes only by one device adding its own
\* token to that record's readBy: its type, texts, quantities, site and the
\* other tokens of readBy stay, no other feed record changes, and a device that holds
\* no token changes nothing; once the call has returned the token is in
\* readBy, so the same call again would leave readBy as it is.
C17_MarkReadMergeOnly ==
  /\ [][\A f \in alerts : \A g \in alerts' :
          (AlertId(g) = AlertId(f) /\ g # f) =>
            \E d \in Readers :
              /\ session[d].token # None
              /\ f.siteId = session[d].siteId
              /\ g = [f EXCEPT !.readBy = f.readBy \cup {session[d].token}]
              /\ alerts' = (alerts \ {f}) \cup {g}]_vars
  /\ [](\A d \in Readers : \A f \in alerts :
          AlertId(f) \in marked[d] =>
            /\ session[d].token \in f.readBy
            /\ MergeRead(f.readBy, session[d].token) = f.readBy)

C17_Witness ==
  /\ marked["d2"] = {<<0, 1>>}
  /\ marked["d1"] = {}
  /\ session["d1"].siteId = "s1" /\ session["d1"].token = None
  /\ \E f \in alerts : AlertId(f) = <<0, 1>> /\ f.readBy = {"t3"}
  /\ \E f \in alerts : f.ev = 1 /\ f.siteId = "s1" /\ f.readBy = {}
  /\ \E f \in alerts : AlertId(f) = <<0, 2>> /\ f.readBy = {"t2"}

\* C18: in every step, whoever takes it (the trigger, a device marking an
\* alert read, a hook), each feed record that exists still exists with a
\* readBy that holds every token it held, and each audit record that exists
\* still exists.
C18_ReadByGrowsOnly ==
  [][/\ \A f \in alerts :
          \E g \in alerts' : AlertId(g) = AlertId(f) /\ f.readBy \subseteq g.readBy
     /\ \A r \in alertsLog :
          \E q \in alertsLog' : q.ev = r.ev /\ q.n = r.n]_vars

C18_Witness ==
  /\ Cardinality(alerts) = 3
  /\ \E f \in alerts : f.ev = 1 /\ f.readBy = {"t1"}
  /\ \E f \in alerts : AlertId(f) = <<0, 1>> /\ f.readBy = {"t1", "t3"}
  /\ \E r \in alertsLog : r.status = "sent"
  /\ ~devicePushTokens["t1"].enabled

\* C19: whatever the order in which the devices' calls of markOneAsRead on
\* a feed record were applied, its readBy is what it was at first together
\* with the tokens of all the devices whose call has returned.
C19_MarkReadCommutes ==
  \A f \in alerts :
    LET first == IF f.ev = 0
                   THEN (CHOOSE o \in OldAlerts : AlertId(o) = AlertId(f)).readBy
                   ELSE {}
    IN f.readBy =
         first \cup {DeviceToken[d] : d \in {r \in Readers : AlertId(f) \in marked[r]}}

C19_Witness ==
  \E f \in alerts :
    /\ f.ev = 1
    /\ AlertId(f) \in marked["d1"]
    /\ AlertId(f) \in marked["d2"]
    /\ f.readBy = {"t1", "t3"}

\* C20: the badge of a device is 0 as long as its token or its site is
\* unknown; a new value of the badge is the number of feed records of the
\* device's site whose readBy lacks the device's token; both hooks return
\* that number for the present collection.
C20_UnreadCount ==
  /\ [](\A d \in Readers :
          LET Unread == {f \in alerts : f.siteId = ProfileSite[d]
                                        /\ DeviceToken[d] \notin f.readBy}
          IN IF session[d].token = None \/ session[d].siteId = None
               THEN /\ unreadCount[d] = 0
                    /\ useUnreadAlerts(session[d].siteId, session[d].token) = 0
                    /\ useUnreadAlertsCount(session[d].token, session[d].siteId) = 0
               ELSE /\ useUnreadAlerts(session[d].siteId, session[d].token)
                         = Cardinality(Unread)
                    /\ useUnreadAlertsCount(session[d].token, session[d].siteId)
                         = Cardinality(Unread))
  /\ [][\A d \in Readers :
          unreadCount'[d] # unreadCount[d] =>
            unreadCount'[d] =
              Cardinality({f \in alerts : f.siteId = ProfileSite[d]
                                           /\ DeviceToken[d] \notin f.readBy})]_vars

C20_Witness ==
  /\ unreadCount["d1"] = 2
  /\ unreadCount["d2"] = 1
  /\ Cardinality({f \in alerts : f.siteId = "s1" /\ "t1" \notin f.readBy}) = 2
  /\ Cardinality({f \in alerts : f.siteId = "s1" /\ "t3" \notin f.readBy}) = 1
  /\ \E f \in alerts : f.siteId = "s2" /\ "t1" \notin f.readBy /\ "t3" \notin f.readBy

\* C21: a step in which a device changes its view, or which a device in the
\* history view takes on the Alerts tab, leaves every feed record as it is;
\* a readBy that changes gains the token of a device that is in the unread
\* view, on one feed record that this view lists.
C21_HistoryReadOnly ==
  [][/\ (\E d \in Readers : session'[d].viewMode # session[d].viewMode)
          => alerts' = alerts
     /\ \A f \in alerts : \A g \in alerts' :
          (AlertId(g) = AlertId(f) /\ g.readBy # f.readBy) =>
            \E d \in Readers :
              /\ session[d].viewMode = "unread"
              /\ session[d].token # None
              /\ f \in filteredAlerts(d)
              /\ g.readBy = f.readBy \cup {session[d].token}
              /\ \A h \in alerts \ {f} : h \in alerts']_vars

C21_Witness ==
  /\ session["d1"].viewMode = "history"
  /\ session["d1"].token = "t1"
  /\ session["d1"].siteId = "s1"
  /\ session["d2"].viewMode = "unread"
  /\ marked["d1"] = {<<0, 1>>}
  /\ marked["d2"] = {}
  /\ \E f \in alerts : AlertId(f) = <<0, 1>> /\ f.readBy = {"t1"}
  /\ \E f \in alerts : f.ev = 1 /\ f.siteId = "s1" /\ f.readBy = {}

\* C22: a registration that exists keeps its uid and its siteId in every
\* step in which it is not deleted, whichever path writes it.
C22_OneOwner ==
  [][\A t \in Tokens :
       (devicePushTokens[t].exists /\ devicePushTokens'[t].exists) =>
         /\ devicePushTokens'[t].uid = devicePushTokens[t].uid
         /\ devicePushTokens'[t].siteId = devicePushTokens[t].siteId]_vars

\* C23: a call of savePushToken made with no signed-in user, with a siteId
\* that is empty once trimmed, or for a token whose registration has
\* another uid or another siteId returns at once, skipped, and leaves the
\* whole registry as it was.
C23_MismatchWritesNothing ==
  [][\A c \in Callers :
       (reg[c].pc = "idle" /\ reg'[c] # reg[c]) =>
         LET call == reg'[c]
             existing == devicePushTokens[call.token]
         IN (\/ call.user = None
             \/ Trim(call.siteId) = ""
             \/ existing.exists /\ existing.uid \notin {None, call.user}
             \/ existing.exists
                  /\ existing.siteId \notin {None, Trim(call.siteId)})
            => /\ call.pc = "idle"
               /\ call.result = "skipped"
               /\ devicePushTokens' = devicePushTokens]_vars

C23_Witness ==
  /\ reg["c1"].result = "skipped"
  /\ reg["c1"].user = "u2" /\ reg["c1"].token = "t1" /\ reg["c1"].siteId = "s1"
  /\ reg["c1"].existing.uid = "u1"
  /\ reg["c2"].result = "skipped"
  /\ reg["c2"].user = "u1" /\ reg["c2"].token = "t1" /\ reg["c2"].siteId = " s2"
  /\ reg["c2"].existing.siteId = "s1"
  /\ devicePushTokens["t1"] = Registration("t1", "s1", TRUE)

\* C24: the setDoc of a call that has passed the check makes the caller's
\* user and site the owner of the registration, whatever the registration
\* has become since the getDoc of that call.
C24_LastWriteWins ==
  [][\A c \in Callers :
       (reg[c].pc = "setDoc" /\ reg'[c].result = "saved") =>
         /\ devicePushTokens'[reg[c].token].exists
         /\ devicePushTokens'[reg[c].token].uid = reg[c].user
         /\ devicePushTokens'[reg[c].token].siteId = Trim(reg[c].siteId)]_vars

C24_Witness ==
  /\ reg["c1"].result = "saved" /\ reg["c2"].result = "saved"
  /\ reg["c1"].token = "t3" /\ reg["c2"].token = "t3"
  /\ reg["c1"].user = "u1" /\ reg["c2"].user = "u2"
  /\ ~reg["c1"].existing.exists /\ ~reg["c2"].existing.exists
  /\ devicePushTokens["t3"].uid = "u1"
  /\ devicePushTokens["t3"].siteId = "s1"
  /\ reg["c2"].siteId = " s2"

\* C25: the cooldown check of an invocation sees the markers of its
\* event's after snapshot only.  An invocation is suppressed only when that
\* snapshot carries its nextState as lastAlertState, and an alert-worthy
\* invocation whose snapshot does not has an audit record and a feed record
\* once it has ended, even if another invocation has stored the same state
\* as lastAlertState less than 10 minutes before.
C25_CooldownReadsSnapshot ==
  \A e \in DOMAIN inv :
    /\ inv[e].pc \in {"suppress", "suppressed"} =>
         /\ events[e].after.lastAlertState = nextState(e)
         /\ events[e].after.lastAlertAt # NoTime
    /\ (/\ AlertWorthy(e)
        /\ events[e].after.lastAlertState # nextState(e)
        /\ inv[e].pc \in {"done", "raised"}) =>
         /\ Cardinality(AuditOf(e)) = 1
         /\ Cardinality(FeedOf(e)) = 1

C25_Witness ==
  /\ now < COOLDOWN_MINUTES
  /\ nextState(1) = "LOW" /\ nextState(3) = "LOW"
  /\ inv[1].pc = "done" /\ inv[3].pc = "done"
  /\ inv[2].pc = "pending"
  /\ item.lastAlertState = "LOW"
  /\ \E f \in FeedOf(1) : f.type = "low"
  /\ \E f \in FeedOf(3) : f.type = "low"
  /\ AuditOf(1) # {} /\ AuditOf(3) # {}
  /\ Cardinality(alerts) = 2

\* C26: in every state, a stock mutation that is stored and whose event is
\* alert-worthy and cannot be suppressed (its snapshot does not carry its
\* nextState as lastAlertState) has its audit record and its feed record,
\* and no event has one of the two records without the other.
C26_RecordsWithMutation ==
  \A e \in DOMAIN inv :
    /\ (AlertWorthy(e) /\ events[e].after.lastAlertState # nextState(e)) =>
         (AuditOf(e) # {} /\ FeedOf(e) # {})
    /\ (AuditOf(e) = {}) <=> (FeedOf(e) = {})

\* C27: after one stock write, the only further event is the one fired by
\* the trigger's own write of the alert fields; it has equal before and
\* after quantities, and its invocation ends without a record and without
\* a write.  So there are at most two invocations, at most one audit record
\* and one feed record, and in the end every invocation has ended.
C27_SelfWritesQuiesce ==
  /\ [](/\ Len(events) <= 2
        /\ Cardinality(alertsLog) <= 1
        /\ Cardinality(alerts) <= 1
        /\ \A e \in DOMAIN inv :
             e > 1 => /\ beforeQty(e) = afterQty(e)
                      /\ events[e].before.alertState # events[e].after.alertState
                           \/ events[e].before.lastAlertAt # events[e].after.lastAlertAt
                      /\ inv[e].pc \in {"pending", "done"}
                      /\ AuditOf(e) = {} /\ FeedOf(e) = {} /\ PushOf(e) = {})
  /\ <>[](\A e \in DOMAIN inv : Ended(e))

C27_Witness ==
  /\ Len(events) = 2
  /\ inv[1].pc = "done" /\ inv[2].pc = "done"
  /\ AlertWorthy(1)
  /\ events[2].before = events[1].after
  /\ events[2].after = item
  /\ item.lastAlertState = nextState(1)
  /\ Cardinality(AuditOf(1)) = 1 /\ Cardinality(FeedOf(1)) = 1
  /\ Cardinality(alertsLog) = 1 /\ Cardinality(alerts) = 1

\* C28: however often the trigger is invoked for the event of one stock
\* write, at most one audit record and at most one feed record exist for
\* that event.
C28_RetryCreatesNoDuplicate ==
  \A e \in DOMAIN inv :
    /\ Cardinality(AuditOf(e)) <= 1
    /\ Cardinality(FeedOf(e)) <= 1

\* C29: no step of the trigger or of a device reset brings a registration
\* into existence, and a registration that exists and stays keeps its
\* token, uid and siteId fields.
C29_DisableCreatesNothing ==
  [][\A t \in Tokens :
       /\ ~devicePushTokens[t].exists => ~devicePushTokens'[t].exists
       /\ (devicePushTokens[t].exists /\ devicePushTokens'[t].exists) =>
            /\ devicePushTokens'[t].token = devicePushTokens[t].token
            /\ devicePushTokens'[t].uid = devicePushTokens[t].uid
            /\ devicePushTokens'[t].siteId = devicePushTokens[t].siteId]_vars

\* C30: the stored quantity is never negative; once every handler has
\* returned, the stored quantity is the initial quantity plus the deltas of
\* all the movements (where no movement was clamped at 0), and the newest
\* movement record carries the stored quantity as its newQuantity.
C30_AdjustmentsAddUp ==
  /\ item.exists => Num(item.currentQuantity) >= 0
  /\ (/\ \A d \in Readers : op[d] = Idle
      /\ Len(movements) = 2
      /\ \A k \in DOMAIN movements :
           movements[k].newQuantity = movements[k].previousQuantity
                                        + movements[k].delta) =>
       /\ Num(item.currentQuantity) =
            movements[1].previousQuantity + movements[1].delta + movements[2].delta
       /\ movements[Len(movements)].newQuantity = Num(item.currentQuantity)

====
